---- MODULE Spec2Model ----
(***************************************************************************)
(* Model of the scrobbler protocol client of web-scrobbler                 *)
(* (core/background/scrobblers/baseScrobbler.js): the credential handshake *)
(* getAuthUrl() / getSession() / tradeTokenForSession() over the           *)
(* namespaced storage record {token, sessionID, sessionName}.              *)
(* Further specifications cover the operations built on the handshake     *)
(* (sendNowPlaying, scrobble, toggleLove with doRequest and                *)
(* processResponse: TrackSpec) and the pure functions generateSign and     *)
(* createQueryString (SignSpec); TabSpec is the background script's        *)
(* registry of tab controllers (tabControllers and the tabs handlers).      *)
(*                                                                         *)
(* Every asynchronous hop of the code is a step of its own: the storage    *)
(* read, the callback that runs on the data read, the network response,    *)
(* the completion callback of storage.set, and the timer of                *)
(* timeoutPromise.  A getSession call occupies a slot until the next call   *)
(* takes the slot over; getAuthUrl calls are numbered as they are invoked. *)
(***************************************************************************)
EXTENDS Integers, Sequences, FiniteSets, TLC

\* ---------------------------------------------------------------- bounds
\* getSession calls that can overlap (slots)
MaxSess == 2
\* getAuthUrl calls made in a run
MaxAuth == 2
\* operations of either kind that can be in flight at the same time
MaxInFlight == 2
\* sendNowPlaying / scrobble / toggleLove invocations that can overlap
MaxPipes == 2
\* parameters of an object given to generateSign
MaxParams == 3
\* tabs opened while the background script runs
MaxTabs == 2
\* onTabUpdated invocations of one tab awaiting the injection check at a time
MaxInjecting == 2
\* controllers constructed while the background script runs
MaxControllers == 2

SessCalls == 1..MaxSess
AuthCalls == 1..MaxAuth
Pipes == 1..MaxPipes
Tabs == 1..MaxTabs
Controllers == 1..MaxControllers

\* ------------------------------------------------------------ constants
GET_AUTH_URL_TIMEOUT == 10000

\* ---------------------------------------------------------------- values
\* null and undefined (a field absent from the stored object) are one value
Null == "null"
\* the empty string: what $(...).text() yields when the element is missing
EmptyStr == ""

\* tokens handed out by auth.gettoken; the service never repeats a token
TokenNames == <<"abc123", "def456", "ghi789", "jkl012", "mno345">>
Tokens == {TokenNames[i] : i \in AuthCalls}

\* sessions handed out by auth.getsession, one per overlapping trade
SessionNames == <<[key |-> "sess1", name |-> "u1"], [key |-> "sess2", name |-> "u2"],
                  [key |-> "sess3", name |-> "u3"], [key |-> "sess4", name |-> "u4"]>>
\* data.session of a JSON body that has no session member
NoSession == [key |-> "undefined", name |-> "undefined"]

\* responses of the auth.getsession request of the call in slot c: a JSON body
\* with or without a session member, or a failure of fetch / response.json()
TradeResponses(c) ==
    {[kind |-> "json", session |-> s] : s \in {SessionNames[c], NoSession}}
    \cup {[kind |-> "error", session |-> NoSession]}
NoTradeResp == [kind |-> "none", session |-> NoSession]

\* responses of the auth.gettoken request: an lfm envelope with a status
\* attribute and a token element, or a failure of fetch / $.parseXML
AuthEnvelopes(a) ==
    {[kind |-> "xml", status |-> "ok", token |-> t] : t \in {TokenNames[a], EmptyStr}}
    \cup {[kind |-> "xml", status |-> "failed", token |-> EmptyStr]}
AuthResponses(a) ==
    AuthEnvelopes(a) \cup {[kind |-> "error", status |-> Null, token |-> EmptyStr]}
NoAuthResp == [kind |-> "none", status |-> Null, token |-> EmptyStr]

\* ServiceCallResult values
AuthError == "AuthError"
OtherError == "OtherError"
Ok == "Ok"
ServiceCallResult == {Ok, AuthError, OtherError}

\* options the scrobbler is constructed with
ApiKey == "apikey"
AuthUrlBase == "https://www.last.fm/api/auth/"

\* filler values of promises
NoSessionData == [sessionID |-> "-", sessionName |-> "-"]
NoUrl == <<>>

\* the credential record kept in storage
EmptyCredentials == [token |-> Null, sessionID |-> Null, sessionName |-> Null]
\* "no value yet" for the history copies of a record
NoData == [token |-> "-", sessionID |-> "-", sessionName |-> "-"]

\* promise states; the value of a promise that has none is the filler given
NoError == "none"
Pending(filler) == [state |-> "pending", value |-> filler, error |-> NoError]
Resolved(v) == [state |-> "resolved", value |-> v, error |-> NoError]
Rejected(e, filler) == [state |-> "rejected", value |-> filler, error |-> e]

\* errors that are not ServiceCallResult values
TradeFailed == "Error: auth.tradeTokenForSession failed"
PromiseTimeout == "Error: promise timeout"
Undefined == "undefined"
FetchFailed == "TypeError: Failed to fetch"

\* the timer of a call that has set none
NoTimer == [state |-> "unset", delay |-> 0]

\* JavaScript truthiness of a stored string value
Truthy(v) == v # Null /\ v # EmptyStr

\* more options the scrobbler is constructed with
ApiUrl == "https://ws.audioscrobbler.com/2.0/"
ApiSecret == "apisecret"

\* songs given to the operations: processed fields are set by the user's
\* corrections, parsed fields by the connector; a number is written as its
\* decimal string, which is what string concatenation makes of it
PlainSong ==
    [processed |-> [track |-> Null, artist |-> Null],
     parsed |-> [track |-> "T", artist |-> "A"],
     album |-> Null, duration |-> Null,
     metadata |-> [startTimestamp |-> "1000"]]
CorrectedSong ==
    [processed |-> [track |-> "Rock & Roll", artist |-> "B"],
     parsed |-> [track |-> "rock & roll (live)", artist |-> "b"],
     album |-> "Loaded", duration |-> "280",
     metadata |-> [startTimestamp |-> "2000"]]
EmptyAlbumSong == [PlainSong EXCEPT !.album = EmptyStr]
Songs == {PlainSong, CorrectedSong, EmptyAlbumSong}
NoSong ==
    [processed |-> [track |-> Null, artist |-> Null],
     parsed |-> [track |-> Null, artist |-> Null],
     album |-> Null, duration |-> Null, metadata |-> [startTimestamp |-> "0"]]

\* invocations of the three operations
Operations ==
    {[name |-> "scrobble", song |-> s, isLoved |-> FALSE] : s \in Songs}
    \cup {[name |-> "sendNowPlaying", song |-> CorrectedSong, isLoved |-> FALSE]}
    \cup {[name |-> "toggleLove", song |-> PlainSong, isLoved |-> l] : l \in BOOLEAN}
NoOperation == [name |-> "none", song |-> NoSong, isLoved |-> FALSE]

\* responses of a track request: an XML body whose lfm element has a status
\* attribute or none (also the body sent with a non-2xx code), a body that
\* $.parseXML rejects, or a failure of fetch
TrackResponses ==
    {[kind |-> "xml", status |-> st] : st \in {"ok", "failed", Undefined}}
    \cup {[kind |-> "malformed", status |-> Undefined],
          [kind |-> "error", status |-> Undefined]}
NoTrackResp == [kind |-> "none", status |-> Undefined]

\* filler value of the promise of an operation
NoResult == "-"

\* credential records the storage can hold when an operation is invoked:
\* nothing, a token waiting to be traded, a session
TrackCredentials ==
    {EmptyCredentials,
     [token |-> TokenNames[1], sessionID |-> Null, sessionName |-> Null],
     [token |-> Null, sessionID |-> "sess0", sessionName |-> "u0"]}

\* tabControllers[tabId] of a tab without controller, and a tab ID that is null
NoController == 0
NoTab == 0
\* the type of the InjectResult of Inject.onTabsUpdated; "threw" for a rejection
InjectResults == {"NO_MATCH", "MATCHED_BUT_DISABLED", "MATCHED_AND_INJECTED", "threw"}
\* changeInfo.status of a tabs.onUpdated event
TabStatuses == {"loading", "complete"}
\* controller modes: one ControllerMode.isActive holds of, one
\* ControllerMode.isInactive holds of, one neither holds of
Modes == {"active", "inactive", "other"}

\* ---------------------------------------------------------------- state
VARIABLES
    stored,      \* the record in this.storage
    sPc,         \* getSession slot -> position of the call in it
    sData,       \* getSession slot -> the data object its storage.get delivered
    sRead,       \* getSession slot -> the record as its storage.get read it
    sTok,        \* getSession slot -> token passed to tradeTokenForSession
    sResp,       \* getSession slot -> response of its auth.getsession request
    sWrote,      \* getSession slot -> record it passed to storage.set
    sReq,        \* getSession slot -> network requests it issued
    sBranch,     \* getSession slot -> handler that ran on the trade: "then" or "catch"
    sResult,     \* getSession slot -> state of the returned promise
    sAfterFail,  \* getSession slot -> whether the call is the next one after a trade failure
    lastFail,    \* whether the last settled trade failure awaits the next getSession call
    lastWriter,  \* the slot whose call made the last storage.set, 0 for getAuthUrl
    submitted,   \* token -> number of auth.getsession requests carrying it
    consumed,    \* tokens whose trade outcome has been written back
    aPc,         \* getAuthUrl call -> position of the inner promise chain
    aResp,       \* getAuthUrl call -> response of its auth.gettoken request
    aData,       \* getAuthUrl call -> the data object its storage.get delivered
    aRead,       \* getAuthUrl call -> the record as its storage.get read it
    aWrote,      \* getAuthUrl call -> record it passed to storage.set
    aTimer,      \* getAuthUrl call -> the timer set by timeoutPromise
    aLate,       \* getAuthUrl call -> whether its response came after the timer fired
    aInner,      \* getAuthUrl call -> state of the promise given to timeoutPromise
    aOuter,      \* getAuthUrl call -> state of the promise timeoutPromise returns
    tPc,         \* operation -> position of its pipeline
    tOp,         \* operation -> the method invoked and its arguments
    tSlot,       \* operation -> slot of its getSession call, 0 once that has settled
    tSession,    \* operation -> outcome of its getSession call
    tTrades,     \* operation -> token trades its getSession call issued
    tParams,     \* operation -> parameters of the track request it sent
    tUrl,        \* operation -> URL of the track request it sent
    tReqs,       \* operation -> track requests it issued
    tResp,       \* operation -> response of its track request
    tResult,     \* operation -> state of the returned promise
    gParams,     \* a parameter object, as its own properties in insertion order
    gOther,      \* a second parameter object, made from the first
    gPc,         \* what was done with the parameter objects
    gSign,       \* generateSign of the two objects
    gQuery,      \* createQueryString of the second object
    tabControllers, \* tab -> the controller registered for it, NoController for none
    ctrlState,   \* controller -> "none" (not created), "running" or "finished"
    ctrlTab,     \* controller -> the tabId it was constructed with
    ctrlEnabled, \* controller -> the enabled flag it was constructed with
    ctrlMode,    \* controller -> its mode
    injecting,   \* tab -> onTabUpdated invocations awaiting Inject.onTabsUpdated
    removed,     \* tabs for which onTabRemoved has run
    taken,       \* controllers that have been taken out of tabControllers
    activeTabId, \* ID of a recent active tab
    currentTabId \* ID of a current tab

sessVars == <<sPc, sData, sRead, sTok, sResp, sWrote, sReq, sBranch, sResult, sAfterFail>>
authVars == <<aPc, aResp, aData, aRead, aWrote, aTimer, aLate, aInner, aOuter>>
vars == <<stored, sessVars, lastFail, lastWriter, submitted, consumed, authVars>>
trackVars == <<tPc, tOp, tSlot, tSession, tTrades, tParams, tUrl, tReqs, tResp, tResult>>
signVars == <<gParams, gOther, gPc, gSign, gQuery>>
tabVars == <<tabControllers, ctrlState, ctrlTab, ctrlEnabled, ctrlMode, injecting,
             removed, taken, activeTabId, currentTabId>>
allVars == <<vars, trackVars, signVars, tabVars>>

\* no operation has been invoked
TrackIdle ==
    /\ tPc = [p \in Pipes |-> "idle"]
    /\ tOp = [p \in Pipes |-> NoOperation]
    /\ tSlot = [p \in Pipes |-> 0]
    /\ tSession = [p \in Pipes |-> Pending(NoSessionData)]
    /\ tTrades = [p \in Pipes |-> 0]
    /\ tParams = [p \in Pipes |-> <<>>]
    /\ tUrl = [p \in Pipes |-> <<>>]
    /\ tReqs = [p \in Pipes |-> 0]
    /\ tResp = [p \in Pipes |-> NoTrackResp]
    /\ tResult = [p \in Pipes |-> Pending(NoResult)]

\* nothing has been signed
SignIdle ==
    /\ gParams = <<>>
    /\ gOther = <<>>
    /\ gPc = "none"
    /\ gSign = <<>>
    /\ gQuery = <<>>

\* the background script has not started: no controller, no tab known
TabIdle ==
    /\ tabControllers = [t \in Tabs |-> NoController]
    /\ ctrlState = [k \in Controllers |-> "none"]
    /\ ctrlTab = [k \in Controllers |-> NoTab]
    /\ ctrlEnabled = [k \in Controllers |-> FALSE]
    /\ ctrlMode = [k \in Controllers |-> "none"]
    /\ injecting = [t \in Tabs |-> 0]
    /\ removed = {}
    /\ taken = {}
    /\ activeTabId = NoTab
    /\ currentTabId = NoTab

\* no getSession and no getAuthUrl call has been made
HandshakeIdle ==
    /\ sPc = [c \in SessCalls |-> "idle"]
    /\ sData = [c \in SessCalls |-> NoData]
    /\ sRead = [c \in SessCalls |-> NoData]
    /\ sTok = [c \in SessCalls |-> Null]
    /\ sResp = [c \in SessCalls |-> NoTradeResp]
    /\ sWrote = [c \in SessCalls |-> NoData]
    /\ sReq = [c \in SessCalls |-> 0]
    /\ sBranch = [c \in SessCalls |-> "none"]
    /\ sResult = [c \in SessCalls |-> Pending(NoSessionData)]
    /\ sAfterFail = [c \in SessCalls |-> "no"]
    /\ lastFail = "no"
    /\ lastWriter = -1
    /\ submitted = [t \in Tokens |-> 0]
    /\ consumed = {}
    /\ aPc = [a \in AuthCalls |-> "idle"]
    /\ aResp = [a \in AuthCalls |-> NoAuthResp]
    /\ aData = [a \in AuthCalls |-> NoData]
    /\ aRead = [a \in AuthCalls |-> NoData]
    /\ aWrote = [a \in AuthCalls |-> NoData]
    /\ aTimer = [a \in AuthCalls |-> NoTimer]
    /\ aLate = [a \in AuthCalls |-> FALSE]
    /\ aInner = [a \in AuthCalls |-> Pending(NoUrl)]
    /\ aOuter = [a \in AuthCalls |-> Pending(NoUrl)]

Init ==
    /\ stored = EmptyCredentials
    /\ HandshakeIdle
    /\ TrackIdle
    /\ SignIdle
    /\ TabIdle

\* operations in flight: invoked, and the last callback has not run yet
SessInFlight == {c \in SessCalls : sPc[c] \in {"get", "cb", "trade", "set"}}
AuthInFlight == {a \in AuthCalls : aPc[a] \in {"fetch", "get", "cb", "set"}}
InFlight == Cardinality(SessInFlight) + Cardinality(AuthInFlight)

\* The caller holds the promise of a settled call, and the model the records of
\* that call, until the caller invokes the next operation: the slot of a
\* settled getSession call is then free, a settled getAuthUrl call is "gone".
\* `new` is the value of the call invoked (slot c, or call a), if it is of the
\* kind.
releaseSess(f, c, new, blank) ==
    [d \in SessCalls |-> IF d = c THEN new
                         ELSE IF sPc[d] = "done" THEN blank ELSE f[d]]
releaseAuth(f, a, new, blank) ==
    [b \in AuthCalls |-> IF b = a THEN new
                         ELSE IF aPc[b] \in {"fin", "gone"} THEN blank ELSE f[b]]
releaseAuthPc(a, new) ==
    [b \in AuthCalls |-> IF b = a THEN new
                         ELSE IF aPc[b] \in {"fin", "gone"} THEN "gone" ELSE aPc[b]]
releaseWriter(c) ==
    IF lastWriter = c \/ (lastWriter \in SessCalls /\ sPc[lastWriter] = "done")
    THEN -1 ELSE lastWriter
releaseAllAuth ==
    /\ aPc' = releaseAuthPc(0, "idle")
    /\ aResp' = releaseAuth(aResp, 0, NoAuthResp, NoAuthResp)
    /\ aData' = releaseAuth(aData, 0, NoData, NoData)
    /\ aRead' = releaseAuth(aRead, 0, NoData, NoData)
    /\ aWrote' = releaseAuth(aWrote, 0, NoData, NoData)
    /\ aTimer' = releaseAuth(aTimer, 0, NoTimer, NoTimer)
    /\ aLate' = releaseAuth(aLate, 0, FALSE, FALSE)
    /\ aInner' = releaseAuth(aInner, 0, Pending(NoUrl), Pending(NoUrl))
    /\ aOuter' = releaseAuth(aOuter, 0, Pending(NoUrl), Pending(NoUrl))


\* bookkeeping of a storage.set: the record a trade failure wrote is no
\* longer the stored one
dirtied(flag) == IF flag = "clean" THEN "dirty" ELSE flag
afterFailAfterWrite ==
    [c \in SessCalls |-> IF sPc[c] = "get" THEN dirtied(sAfterFail[c]) ELSE sAfterFail[c]]

\* ------------------------------------------------------------ getSession

\* the session object getSession resolves with
SessionOf(data) == [sessionID |-> data.sessionID, sessionName |-> data.sessionName]

\* tradeTokenForSession: the promise it returns settles with data.session
\* of the JSON body, or rejects when fetch or response.json() fails
tradeTokenForSession(resp) ==
    IF resp.kind = "json" THEN Resolved(resp.session)
    ELSE Rejected(TradeFailed, NoSession)

\* variants of the .then handler: one that forgets session.name, one that
\* leaves the used token in the record
tradeThen_noName(data, session) ==
    IF session = NoSession
    THEN [threw |-> TRUE, data |-> [data EXCEPT !.token = Null]]
    ELSE [threw |-> FALSE,
          data  |-> [data EXCEPT !.token = Null, !.sessionID = session.key]]
tradeThen_keepsToken(data, session) ==
    IF session = NoSession
    THEN [threw |-> TRUE, data |-> data]
    ELSE [threw |-> FALSE,
          data  |-> [data EXCEPT !.sessionID = session.key,
                                 !.sessionName = session.name]]

\* the .then handler of getSession: data after the assignments, and whether
\* reading session.key threw (session undefined)
tradeThen(data, session) ==
    IF session = NoSession
    THEN [threw |-> TRUE, data |-> [data EXCEPT !.token = Null]]
    ELSE [threw |-> FALSE,
          data  |-> [data EXCEPT !.token = Null,
                                 !.sessionID = session.key,
                                 !.sessionName = session.name]]

\* variants of the .catch handler that clear only part of the record
tradeCatch_keepsName(data) == [data EXCEPT !.token = Null, !.sessionID = Null]
tradeCatch_keepsToken(data) == [data EXCEPT !.sessionID = Null, !.sessionName = Null]
tradeCatch_keepsSession(data) == [data EXCEPT !.token = Null]

\* the .catch handler of getSession: both session and token are now invalid
tradeCatch(data) ==
    [data EXCEPT !.token = Null, !.sessionID = Null, !.sessionName = Null]

\* the value selecting the branch taken on the data read: data.token || null
tokenOrNull(data) == IF Truthy(data.token) THEN data.token ELSE Null

\* variants of the branches without trade: the test on data.sessionID
\* inverted, and a rejection with the wrong ServiceCallResult
sessionWithoutTrade_inverted(data) ==
    IF Truthy(data.sessionID)
    THEN Rejected(AuthError, NoSessionData)
    ELSE Resolved([sessionID |-> data.sessionID, sessionName |-> data.sessionName])
sessionWithoutTrade_otherError(data) ==
    IF ~Truthy(data.sessionID)
    THEN Rejected(OtherError, NoSessionData)
    ELSE Resolved([sessionID |-> data.sessionID, sessionName |-> data.sessionName])

\* variant whose branch without token and session settles nothing
sessionWithoutTrade_pending(data) ==
    IF ~Truthy(data.sessionID)
    THEN Pending(NoSessionData)
    ELSE Resolved([sessionID |-> data.sessionID, sessionName |-> data.sessionName])

\* the promise of the branches of getSession that need no trade
sessionWithoutTrade(data) ==
    IF ~Truthy(data.sessionID)
    THEN Rejected(AuthError, NoSessionData)
    ELSE Resolved(SessionOf(data))

\* getSession() is invoked in the lowest free slot: storage.get is issued
getSession(c) ==
    /\ sPc[c] \in {"idle", "done"}
    /\ \A d \in 1..(c - 1) : sPc[d] \notin {"idle", "done"}
    /\ InFlight < MaxInFlight
    /\ sPc' = releaseSess(sPc, c, "get", "idle")
    /\ sData' = releaseSess(sData, c, NoData, NoData)
    /\ sRead' = releaseSess(sRead, c, NoData, NoData)
    /\ sTok' = releaseSess(sTok, c, Null, Null)
    /\ sResp' = releaseSess(sResp, c, NoTradeResp, NoTradeResp)
    /\ sWrote' = releaseSess(sWrote, c, NoData, NoData)
    /\ sReq' = releaseSess(sReq, c, 0, 0)
    /\ sBranch' = releaseSess(sBranch, c, "none", "none")
    /\ sResult' = releaseSess(sResult, c, Pending(NoSessionData), Pending(NoSessionData))
    /\ sAfterFail' = releaseSess(sAfterFail, c, lastFail, "no")
    /\ lastFail' = "no"
    /\ lastWriter' = releaseWriter(c)
    /\ releaseAllAuth
    /\ UNCHANGED <<stored, submitted, consumed>>

\* the storage serves the read of a getSession call
sessionStorageGet(c) ==
    /\ sPc[c] = "get"
    /\ sPc' = [sPc EXCEPT ![c] = "cb"]
    /\ sData' = [sData EXCEPT ![c] = stored]
    /\ sRead' = [sRead EXCEPT ![c] = stored]
    /\ UNCHANGED <<stored, sTok, sResp, sWrote, sReq, sBranch, sResult,
                   sAfterFail, lastFail, lastWriter, submitted, consumed, authVars>>

\* the storage.get callback of getSession runs on the data read
sessionGetCallback(c) ==
    /\ sPc[c] = "cb"
    /\ LET token == tokenOrNull(sData[c]) IN
       IF token # Null
       THEN /\ sPc' = [sPc EXCEPT ![c] = "trade"]
            /\ sTok' = [sTok EXCEPT ![c] = token]
            /\ sReq' = [sReq EXCEPT ![c] = @ + 1]
            /\ submitted' = [submitted EXCEPT ![token] = @ + 1]
            /\ UNCHANGED sResult
       ELSE /\ sPc' = [sPc EXCEPT ![c] = "done"]
            /\ sResult' = [sResult EXCEPT ![c] = sessionWithoutTrade(sData[c])]
            /\ UNCHANGED <<sTok, sReq, submitted>>
    /\ UNCHANGED <<stored, sData, sRead, sResp, sWrote, sBranch, sAfterFail,
                   lastFail, lastWriter, consumed, authVars>>

\* the auth.getsession request completes: the .then handler or the .catch
\* handler runs and hands the record to storage.set
sessionTradeDone(c) ==
    /\ sPc[c] = "trade"
    /\ \E resp \in TradeResponses(c) :
         LET p == tradeTokenForSession(resp)
             t == IF p.state = "resolved"
                  THEN tradeThen(sData[c], p.value)
                  ELSE [threw |-> TRUE, data |-> sData[c]]
             d == IF t.threw THEN tradeCatch(t.data) ELSE t.data
         IN /\ sResp' = [sResp EXCEPT ![c] = resp]
            /\ sData' = [sData EXCEPT ![c] = d]
            /\ sWrote' = [sWrote EXCEPT ![c] = d]
            /\ stored' = d
            /\ sBranch' = [sBranch EXCEPT ![c] = IF t.threw THEN "catch" ELSE "then"]
    /\ lastWriter' = c
    /\ sAfterFail' = afterFailAfterWrite
    /\ lastFail' = dirtied(lastFail)
    /\ consumed' = consumed \cup {sTok[c]}
    /\ sPc' = [sPc EXCEPT ![c] = "set"]
    /\ UNCHANGED <<sRead, sTok, sReq, sResult, submitted, authVars>>

\* the storage.set callback of getSession settles the returned promise
sessionSetCallback(c) ==
    /\ sPc[c] = "set"
    /\ sPc' = [sPc EXCEPT ![c] = "done"]
    /\ IF sBranch[c] = "catch"
       THEN /\ sResult' = [sResult EXCEPT ![c] = Rejected(AuthError, NoSessionData)]
            /\ lastFail' = IF AuthInFlight # {} THEN "no"
                           ELSE IF lastWriter # c THEN "dirty" ELSE "clean"
       ELSE /\ sResult' = [sResult EXCEPT ![c] = Resolved(SessionOf(sData[c]))]
            /\ UNCHANGED lastFail
    /\ UNCHANGED <<stored, sData, sRead, sTok, sResp, sWrote, sReq, sBranch,
                   sAfterFail, lastWriter, submitted, consumed, authVars>>

\* ------------------------------------------------------------ getAuthUrl

\* variant of the URL template that leaves the token parameter out
authUrl_noToken(token) == <<AuthUrlBase, "?api_key=", ApiKey>>

\* the authorization URL, as the pieces the template string concatenates
authUrl(token) == <<AuthUrlBase, "?api_key=", ApiKey, "&token=", token>>

\* variant that leaves the stale token in the record
authStatusFailed_keepsToken(data) == data

\* variant that resets the session as the ok branch does
authStatusFailed_resetsSession(data) == [data EXCEPT !.token = Null, !.sessionID = Null]

\* the record written when the envelope status is not ok
authStatusFailed(data) == [data EXCEPT !.token = Null]

\* variant that does not reset the session
authStatusOk_keepsSession(data, token) == [data EXCEPT !.token = token]

\* the record written when the envelope status is ok: set token and reset session
authStatusOk(data, token) == [data EXCEPT !.sessionID = Null, !.token = token]

\* the promise of the chain given to timeoutPromise, once storage.set has called back
authSettled(status, data) ==
    IF status # "ok" THEN Rejected(Undefined, NoUrl) ELSE Resolved(authUrl(data.token))

\* variant in which a later settlement replaces the rejection by the timer
timeoutPromise_lastWins(outer, inner) == inner

\* timeoutPromise: the returned promise takes the outcome of the given one
\* unless it has been settled already (by the timer)
timeoutPromise(outer, inner) == IF outer.state = "pending" THEN inner ELSE outer

\* clearTimeout in the handlers timeoutPromise attaches; they run although the
\* timer may have fired before
clearTimeout(timer) ==
    IF timer.state = "armed" THEN [timer EXCEPT !.state = "cleared"] ELSE timer

\* getAuthUrl() is invoked: the auth.gettoken request is sent, the timer is set
getAuthUrl(a) ==
    /\ aPc[a] = "idle"
    /\ a > 1 => aPc[a - 1] # "idle"
    /\ InFlight < MaxInFlight
    /\ aPc' = releaseAuthPc(a, "fetch")
    /\ aLate' = releaseAuth(aLate, a, FALSE, FALSE)
    /\ aTimer' = releaseAuth(aTimer, a,
                             [state |-> "armed", delay |-> GET_AUTH_URL_TIMEOUT], NoTimer)
    /\ aResp' = releaseAuth(aResp, a, NoAuthResp, NoAuthResp)
    /\ aData' = releaseAuth(aData, a, NoData, NoData)
    /\ aRead' = releaseAuth(aRead, a, NoData, NoData)
    /\ aWrote' = releaseAuth(aWrote, a, NoData, NoData)
    /\ aInner' = releaseAuth(aInner, a, Pending(NoUrl), Pending(NoUrl))
    /\ aOuter' = releaseAuth(aOuter, a, Pending(NoUrl), Pending(NoUrl))
    /\ lastFail' = "no"
    /\ lastWriter' = releaseWriter(0)
    /\ sPc' = releaseSess(sPc, 0, "idle", "idle")
    /\ sData' = releaseSess(sData, 0, NoData, NoData)
    /\ sRead' = releaseSess(sRead, 0, NoData, NoData)
    /\ sTok' = releaseSess(sTok, 0, Null, Null)
    /\ sResp' = releaseSess(sResp, 0, NoTradeResp, NoTradeResp)
    /\ sWrote' = releaseSess(sWrote, 0, NoData, NoData)
    /\ sReq' = releaseSess(sReq, 0, 0, 0)
    /\ sBranch' = releaseSess(sBranch, 0, "none", "none")
    /\ sResult' = releaseSess(sResult, 0, Pending(NoSessionData), Pending(NoSessionData))
    /\ sAfterFail' = [c \in SessCalls |-> "no"]
    /\ UNCHANGED <<stored, submitted, consumed>>

\* the auth.gettoken request completes: a transport or parse failure rejects
\* the chain, an envelope makes the chain issue storage.get
authResponse(a) ==
    /\ aPc[a] = "fetch"
    /\ aLate' = [aLate EXCEPT ![a] = aTimer[a].state = "fired"]
    /\ \E resp \in AuthResponses(a) :
         IF resp.kind = "xml"
         THEN /\ aResp' = [aResp EXCEPT ![a] = resp]
              /\ aPc' = [aPc EXCEPT ![a] = "get"]
              /\ UNCHANGED <<aData, aRead, aWrote, aInner, aOuter, aTimer>>
         ELSE LET inner == Rejected(FetchFailed, NoUrl)
              IN /\ aResp' = [aResp EXCEPT ![a] = resp]
                 /\ aPc' = [aPc EXCEPT ![a] = "fin"]
                 /\ aInner' = [aInner EXCEPT ![a] = inner]
                 /\ aOuter' = [aOuter EXCEPT ![a] = timeoutPromise(aOuter[a], inner)]
                 /\ aTimer' = [aTimer EXCEPT ![a] = clearTimeout(aTimer[a])]
                 /\ UNCHANGED <<aData, aRead, aWrote>>
    /\ UNCHANGED <<stored, sessVars, lastFail, lastWriter, submitted, consumed>>

\* the storage serves the read of a getAuthUrl call
authStorageGet(a) ==
    /\ aPc[a] = "get"
    /\ aPc' = [aPc EXCEPT ![a] = "cb"]
    /\ aData' = [aData EXCEPT ![a] = stored]
    /\ aRead' = [aRead EXCEPT ![a] = stored]
    /\ UNCHANGED <<stored, sessVars, lastFail, lastWriter, submitted, consumed,
                   aResp, aWrote, aTimer, aLate, aInner, aOuter>>

\* the storage.get callback of getAuthUrl runs and hands the record to storage.set
authGetCallback(a) ==
    /\ aPc[a] = "cb"
    /\ LET d == IF aResp[a].status # "ok"
                THEN authStatusFailed(aData[a])
                ELSE authStatusOk(aData[a], aResp[a].token)
       IN /\ aData' = [aData EXCEPT ![a] = d]
          /\ aWrote' = [aWrote EXCEPT ![a] = d]
          /\ stored' = d
    /\ lastWriter' = 0
    /\ sAfterFail' = afterFailAfterWrite
    /\ lastFail' = dirtied(lastFail)
    /\ aPc' = [aPc EXCEPT ![a] = "set"]
    /\ UNCHANGED <<sPc, sData, sRead, sTok, sResp, sWrote, sReq, sBranch, sResult,
                   submitted, consumed, aResp, aRead, aTimer, aLate, aInner, aOuter>>

\* the storage.set callback of getAuthUrl settles the chain
authSetCallback(a) ==
    /\ aPc[a] = "set"
    /\ LET inner == authSettled(aResp[a].status, aData[a])
       IN /\ aInner' = [aInner EXCEPT ![a] = inner]
          /\ aOuter' = [aOuter EXCEPT ![a] = timeoutPromise(aOuter[a], inner)]
    /\ aTimer' = [aTimer EXCEPT ![a] = clearTimeout(aTimer[a])]
    /\ aPc' = [aPc EXCEPT ![a] = "fin"]
    /\ UNCHANGED <<stored, sessVars, lastFail, lastWriter, submitted, consumed,
                   aResp, aData, aRead, aWrote, aLate>>

\* the timer of timeoutPromise fires before the chain has settled
authTimeout(a) ==
    /\ aTimer[a].state = "armed"
    /\ aTimer' = [aTimer EXCEPT ![a].state = "fired"]
    /\ aOuter' = [aOuter EXCEPT ![a] =
           timeoutPromise(aOuter[a], Rejected(PromiseTimeout, NoUrl))]
    /\ UNCHANGED <<stored, sessVars, lastFail, lastWriter, submitted, consumed,
                   aPc, aResp, aData, aRead, aWrote, aLate, aInner>>

\* ------------------------------------------------------------ specification

\* the handshake: getSession and getAuthUrl called by the extension itself
Next ==
    \/ \E c \in SessCalls : getSession(c) /\ UNCHANGED <<trackVars, signVars, tabVars>>
    \/ \E c \in SessCalls : sessionStorageGet(c) /\ UNCHANGED <<trackVars, signVars, tabVars>>
    \/ \E c \in SessCalls : sessionGetCallback(c) /\ UNCHANGED <<trackVars, signVars, tabVars>>
    \/ \E c \in SessCalls : sessionTradeDone(c) /\ UNCHANGED <<trackVars, signVars, tabVars>>
    \/ \E c \in SessCalls : sessionSetCallback(c) /\ UNCHANGED <<trackVars, signVars, tabVars>>
    \/ \E a \in AuthCalls : getAuthUrl(a) /\ UNCHANGED <<trackVars, signVars, tabVars>>
    \/ \E a \in AuthCalls : authResponse(a) /\ UNCHANGED <<trackVars, signVars, tabVars>>
    \/ \E a \in AuthCalls : authStorageGet(a) /\ UNCHANGED <<trackVars, signVars, tabVars>>
    \/ \E a \in AuthCalls : authGetCallback(a) /\ UNCHANGED <<trackVars, signVars, tabVars>>
    \/ \E a \in AuthCalls : authSetCallback(a) /\ UNCHANGED <<trackVars, signVars, tabVars>>
    \/ \E a \in AuthCalls : authTimeout(a) /\ UNCHANGED <<trackVars, signVars, tabVars>>

Spec == Init /\ [][Next]_vars

\* the event loop runs the callback of a timer that is set and not cleared;
\* nothing makes the service respond
FairSpec == Spec /\ \A a \in AuthCalls : WF_vars(authTimeout(a))

\* every storage.get and storage.set of getSession calls back and every
\* auth.getsession request completes (with a body or with a failure); the
\* handlers the event loop then has to run do run
SessionFairSpec ==
    /\ Spec
    /\ \A c \in SessCalls :
           /\ WF_vars(sessionStorageGet(c))
           /\ WF_vars(sessionGetCallback(c))
           /\ WF_vars(sessionTradeDone(c))
           /\ WF_vars(sessionSetCallback(c))

\* ------------------------------------------------------------ properties

\* a getSession call that has settled after trading a token
Traded(c) == sPc[c] = "done" /\ sReq[c] > 0
\* a getSession call that has settled on the record it read, and what it read
Settled(c) == sPc[c] = "done"
ReadsToken(c) == Truthy(sRead[c].token)
ReadsSession(c) == Truthy(sRead[c].sessionID)
\* the trade of the call yielded a session object
YieldedSession(c) == sResp[c].kind = "json" /\ sResp[c].session # NoSession
\* the URL carries the parameter token=t
UrlHasToken(url, t) == \E i \in 1..(Len(url) - 1) : url[i] = "&token=" /\ url[i + 1] = t
\* a getAuthUrl call whose chain has run to its end on an envelope
AuthFinished(a) == aPc[a] = "fin" /\ aResp[a].kind = "xml"

\* C1: a getSession call that read a token and whose trade returned a session
\* {key, name} wrote back exactly {token null, sessionID key, sessionName name}
\* and resolved with {sessionID key, sessionName name}.
C1_TradeSuccess ==
    \A c \in SessCalls :
        (Traded(c) /\ YieldedSession(c)) =>
            /\ ReadsToken(c)
            /\ sWrote[c] = [token |-> Null,
                            sessionID |-> sResp[c].session.key,
                            sessionName |-> sResp[c].session.name]
            /\ sResult[c] = Resolved([sessionID |-> sResp[c].session.key,
                                      sessionName |-> sResp[c].session.name])
\* a call traded the token of a record that still named an older session
C1_Witness ==
    \E c \in SessCalls :
        /\ Traded(c) /\ YieldedSession(c)
        /\ sRead[c].sessionName \notin {Null, sResp[c].session.name}

\* C2: a getSession call that read a token and whose trade yielded no session
\* (request or JSON parsing failed, or the body has no session member) wrote
\* back token, sessionID and sessionName all null and rejected with AuthError;
\* a traded call resolves only if its trade yielded a session.
C2_TradeFailure ==
    \A c \in SessCalls :
        /\ (Traded(c) /\ ~YieldedSession(c)) =>
               /\ ReadsToken(c)
               /\ sWrote[c] = EmptyCredentials
               /\ sResult[c] = Rejected(AuthError, NoSessionData)
        /\ (Traded(c) /\ sResult[c].state = "resolved") => YieldedSession(c)
\* both kinds of failure happened on a record that named an older session
C2_Witness ==
    /\ \E c \in SessCalls :
           /\ Traded(c) /\ sResp[c].kind = "json" /\ ~YieldedSession(c)
           /\ Truthy(sRead[c].sessionName)
    /\ \E c \in SessCalls : Traded(c) /\ sResp[c].kind = "error"

\* C3: a getSession call that read a sessionID and no token resolved with the
\* sessionID/sessionName it read, issued no network request and made no
\* storage.set; two such calls that read the same record got the same session.
C3_CachedSession ==
    \A c \in SessCalls :
        (Settled(c) /\ ~ReadsToken(c) /\ ReadsSession(c)) =>
            /\ sResult[c] = Resolved([sessionID |-> sRead[c].sessionID,
                                      sessionName |-> sRead[c].sessionName])
            /\ sReq[c] = 0
            /\ sWrote[c] = NoData
            /\ \A d \in SessCalls :
                   (Settled(d) /\ sRead[d] = sRead[c]) => sResult[d] = sResult[c]
\* two calls have settled on the same stored session, which is still stored
C3_Witness ==
    \E c, d \in SessCalls :
        /\ c # d /\ Settled(c) /\ Settled(d)
        /\ ReadsSession(c) /\ ~ReadsToken(c)
        /\ sRead[d] = sRead[c] /\ stored = sRead[c]

C6_Original ==
    \A a \in AuthCalls :
        (AuthFinished(a) /\ aResp[a].status = "ok") =>
            /\ aWrote[a].token = aResp[a].token
            /\ aWrote[a].sessionID = Null
            /\ aOuter[a].state = "resolved"
            /\ UrlHasToken(aOuter[a].value, aResp[a].token)
\* C6 amended: such a call stores token T and sessionID null whatever it read,
\* and resolves with a URL carrying token=T unless the timer of timeoutPromise
\* fired before storage.set called back; then it is rejected with the timeout
\* error.
C6_TokenStored ==
    \A a \in AuthCalls :
        (AuthFinished(a) /\ aResp[a].status = "ok") =>
            /\ aWrote[a] = [token |-> aResp[a].token, sessionID |-> Null,
                            sessionName |-> aRead[a].sessionName]
            /\ IF aTimer[a].state = "fired"
               THEN aOuter[a] = Rejected(PromiseTimeout, NoUrl)
               ELSE /\ aOuter[a].state = "resolved"
                    /\ UrlHasToken(aOuter[a].value, aResp[a].token)
\* a call has resolved after replacing a stored session by a token
C6_Witness ==
    \E a \in AuthCalls :
        /\ AuthFinished(a) /\ aResp[a].status = "ok" /\ Truthy(aResp[a].token)
        /\ Truthy(aRead[a].sessionID)
        /\ aOuter[a].state = "resolved"

C8_TokenOrSession == ~(stored.token # Null /\ stored.sessionID # Null)
\* a token is stored in a record that names an older session, after a getAuthUrl
\* call read a stored session and a getSession call traded a token
C8_Witness ==
    /\ Truthy(stored.token) /\ stored.sessionName # Null
    /\ \E c \in SessCalls : \E a \in AuthCalls :
           /\ Traded(c) /\ aPc[a] = "fin" /\ Truthy(aRead[a].sessionID)

\* C9: when two getSession calls have traded the same token and both have
\* settled, each holds a session or AuthError, and the record one of them wrote
\* last is {token null, session of a successful one of the two trades} or all
\* null.
C9_OverlappingTrades ==
    \A c, d \in SessCalls :
        (c # d /\ Traded(c) /\ Traded(d) /\ sTok[c] = sTok[d]) =>
            /\ \A e \in {c, d} :
                   \/ sResult[e] = Rejected(AuthError, NoSessionData)
                   \/ /\ sResult[e].state = "resolved"
                      /\ sResult[e].value = [sessionID |-> sResp[e].session.key,
                                             sessionName |-> sResp[e].session.name]
            /\ lastWriter \in {c, d} =>
                   \/ stored = EmptyCredentials
                   \/ \E e \in {c, d} :
                          /\ YieldedSession(e)
                          /\ stored = [token |-> Null,
                                       sessionID |-> sResp[e].session.key,
                                       sessionName |-> sResp[e].session.name]
\* two calls traded the same token, one got a session and the other failed
\* and wrote last, on a record that named an older session
C9_Witness ==
    \E c, d \in SessCalls :
        /\ c # d /\ Traded(c) /\ Traded(d) /\ sTok[c] = sTok[d]
        /\ YieldedSession(c) /\ ~YieldedSession(d)
        /\ lastWriter = d
        /\ Truthy(sRead[d].sessionName)

C11_TimeoutRejects ==
    /\ [](\A a \in AuthCalls :
            aTimer[a].state = "fired" => aOuter[a] = Rejected(PromiseTimeout, NoUrl))
    /\ \A a \in AuthCalls :
            (aTimer[a].state = "armed") ~> (aOuter[a].state # "pending")
\* the response came after the timer had fired, the chain ran to its end with
\* status ok, and the returned promise is still the timeout rejection
C11_Witness ==
    \E a \in AuthCalls :
        /\ aLate[a]
        /\ aPc[a] = "fin"
        /\ aInner[a].state = "resolved"
        /\ aOuter[a] = Rejected(PromiseTimeout, NoUrl)

\* C12: a getAuthUrl call that exceeded its timeout is cancelled: when its
\* response arrives after the timer has fired, the storage.get callback of the
\* call leaves the stored token and sessionID as they were.
C12_Cancelled ==
    [][\A a \in AuthCalls :
          (aLate[a] /\ aPc[a] = "cb" /\ aPc'[a] = "set")
              => (stored'.token = stored.token /\ stored'.sessionID = stored.sessionID)]_vars

\* C21: the read-mutate-write of a call is one transaction with respect to the
\* other calls: while the caller holds the URL a getAuthUrl call resolved with
\* for token T, T is the stored token unless a getSession call has submitted T
\* or a getAuthUrl call has written since; the write-back of a getSession call
\* that read an older token does not remove T.
C21_Transaction ==
    \A a \in AuthCalls :
        (/\ aPc[a] = "fin" /\ aOuter[a].state = "resolved"
         /\ Truthy(aResp[a].token)
         /\ UrlHasToken(aOuter[a].value, aResp[a].token)
         /\ lastWriter # 0)
            => (stored.token = aResp[a].token \/ submitted[aResp[a].token] > 0)

C23_SettlesOnce ==
    /\ \A c \in SessCalls :
           (sPc[c] = "get") ~> (sPc[c] = "done" /\ sResult[c].state # "pending")
    /\ [](\A c \in SessCalls :
             /\ (sPc[c] = "done") <=> (sResult[c].state # "pending")
             /\ sResult[c].state = "rejected" => sResult[c].error = AuthError)
    /\ [][\A c \in SessCalls :
             (sResult[c].state # "pending" /\ sPc'[c] = "done")
                 => sResult'[c] = sResult[c]]_vars
\* calls have settled on every branch: the trade resolved, the .then handler
\* threw on a body without session, the trade failed, and no trade was needed
C23_Witness ==
    /\ \E c \in SessCalls :
           /\ sPc[c] = "done" /\ sBranch[c] = "catch" /\ sResp[c].kind = "json"
           /\ sResult[c].state = "rejected"
    /\ \E c \in SessCalls :
           /\ sPc[c] = "done" /\ sBranch[c] = "none"
           /\ sResult[c].state # "pending"

\* ------------------------------------------------------- request signing

\* A parameter object is the sequence of its own enumerable properties
\* <<key, value>> in insertion order, which is the order of a for-in loop.
\* Strings are TLA+ strings and + is \o.

\* the keys in use, in the order Array.prototype.sort gives (UTF-16 code units)
SortedKeys ==
    <<"album", "album[0]", "api_key", "api_sig", "artist", "artist[0]", "callback",
      "duration", "format", "method", "sk", "timestamp[0]", "track", "track[0]">>
KeyRank(k) == CHOOSE i \in DOMAIN SortedKeys : SortedKeys[i] = k

\* params.hasOwnProperty(k), params[k], and the assignment params[k] = v
hasOwnProperty(params, k) == \E i \in DOMAIN params : params[i][1] = k
valueOf(params, k) == params[CHOOSE i \in DOMAIN params : params[i][1] = k][2]
assign(params, k, v) ==
    IF hasOwnProperty(params, k)
    THEN [i \in DOMAIN params |-> IF params[i][1] = k THEN <<k, v>> ELSE params[i]]
    ELSE Append(params, <<k, v>>)

\* the keys array that the for-in loop of generateSign fills
ownKeys(params) == [i \in DOMAIN params |-> params[i][1]]

\* keys.sort()
RECURSIVE insertSorted(_, _)
insertSorted(sorted, k) ==
    IF sorted = <<>> THEN <<k>>
    ELSE IF KeyRank(k) < KeyRank(Head(sorted)) THEN <<k>> \o sorted
    ELSE <<Head(sorted)>> \o insertSorted(Tail(sorted), k)
RECURSIVE sort(_)
sort(keys) ==
    IF keys = <<>> THEN <<>> ELSE insertSorted(sort(Tail(keys)), Head(keys))

\* the loop of generateSign over the sorted keys: o = o + keys[i] + params[keys[i]],
\* except for format and callback
RECURSIVE signedString(_, _)
signedString(keys, params) ==
    IF keys = <<>> THEN ""
    ELSE IF Head(keys) = "format" \/ Head(keys) = "callback"
         THEN signedString(Tail(keys), params)
         ELSE Head(keys) \o valueOf(params, Head(keys)) \o signedString(Tail(keys), params)

\* the digest of vendor/md5, as a function that has no collisions
MD5(o) == "md5(" \o o \o ")"

\* variants: the loop over the keys in insertion order, and a loop that
\* skips no key
RECURSIVE signedString_all(_, _)
signedString_all(keys, params) ==
    IF keys = <<>> THEN ""
    ELSE Head(keys) \o valueOf(params, Head(keys)) \o signedString_all(Tail(keys), params)
signedPayload_unsorted(params) == signedString(ownKeys(params), params) \o ApiSecret
signedPayload_all(params) == signedString_all(sort(ownKeys(params)), params) \o ApiSecret

\* the string generateSign hashes, and generateSign
signedPayload(params) == signedString(sort(ownKeys(params)), params) \o ApiSecret
generateSign(params) == MD5(signedPayload(params))

\* encodeURIComponent on the values in use: every character other than
\* A-Z a-z 0-9 - _ . ! ~ * ' ( ) is percent-encoded
encodeURIComponent(v) ==
    CASE v = "Rock & Roll" -> "Rock%20%26%20Roll"
      [] v = "rock & roll (live)" -> "rock%20%26%20roll%20(live)"
      [] v = "a b" -> "a%20b"
      [] OTHER -> v

\* parts.join('&')
RECURSIVE join(_, _)
join(parts, sep) ==
    IF parts = <<>> THEN ""
    ELSE IF Len(parts) = 1 THEN Head(parts)
    ELSE Head(parts) \o sep \o join(Tail(parts), sep)

\* the parts array of createQueryString, and createQueryString
queryParts(params) ==
    [i \in DOMAIN params |-> params[i][1] \o "=" \o encodeURIComponent(params[i][2])]
createQueryString(params) == join(queryParts(params), "&")

\* parameter objects given to generateSign: up to MaxParams properties with
\* keys and values from small sets, in any insertion order
SignKeys == {"method", "sk", "artist", "format", "callback"}
SignValues == {"a", "a b"}
ReservedKeys == {"format", "callback"}
ParamObjects ==
    UNION {{params \in [1..n -> SignKeys \X SignValues] :
                \A i, j \in 1..n : params[i][1] = params[j][1] => i = j} :
           n \in 0..MaxParams}

\* the same properties inserted in another order
Reorderings(params) ==
    {[i \in DOMAIN params |-> params[f[i]]] : f \in Permutations(DOMAIN params)}
\* delete params[k]
delete(params, k) == SelectSeq(params, LAMBDA pr : pr[1] # k)

\* generateSign is called on an object and on the same mapping built in
\* another insertion order
signReordered ==
    /\ gPc = "none"
    /\ \E other \in Reorderings(gParams) :
         /\ gOther' = other
         /\ gSign' = <<generateSign(gParams), generateSign(other)>>
         /\ gQuery' = [parts |-> queryParts(other), string |-> createQueryString(other)]
    /\ gPc' = "reordered"
    /\ UNCHANGED <<vars, trackVars, tabVars, gParams>>

\* generateSign is called on an object and on the object after format or
\* callback was set, changed or deleted
signReservedChanged ==
    /\ gPc = "none"
    /\ \E k \in ReservedKeys :
         \E other \in {assign(gParams, k, v) : v \in SignValues \cup {"json"}}
                          \cup {delete(gParams, k)} :
            /\ other # gParams
            /\ gOther' = other
            /\ gSign' = <<generateSign(gParams), generateSign(other)>>
            /\ gQuery' = [parts |-> queryParts(other), string |-> createQueryString(other)]
    /\ gPc' = "reserved"
    /\ UNCHANGED <<vars, trackVars, tabVars, gParams>>

SignNext == signReordered \/ signReservedChanged

SignInit ==
    /\ stored = EmptyCredentials
    /\ HandshakeIdle
    /\ TrackIdle
    /\ TabIdle
    /\ gParams \in ParamObjects
    /\ gOther = <<>>
    /\ gPc = "none"
    /\ gSign = <<>>
    /\ gQuery = <<>>

SignSpec == SignInit /\ [][SignNext]_allVars

\* ------------------------------------- sendNowPlaying, scrobble, toggleLove

\* a || b
orElse(a, b) == IF Truthy(a) THEN a ELSE b

\* the getters of the song object
getTrack(song) == orElse(song.processed.track, song.parsed.track)
getArtist(song) == orElse(song.processed.artist, song.parsed.artist)
getAlbum(song) == song.album
getDuration(song) == song.duration

\* the params object sendNowPlaying builds
sendNowPlayingParams(song, sessionID) ==
    LET params == <<<<"method", "track.updatenowplaying">>,
                    <<"track", getTrack(song)>>,
                    <<"artist", getArtist(song)>>,
                    <<"api_key", ApiKey>>,
                    <<"sk", sessionID>>>>
        withAlbum == IF Truthy(getAlbum(song))
                     THEN assign(params, "album", getAlbum(song)) ELSE params
    IN IF Truthy(getDuration(song))
       THEN assign(withAlbum, "duration", getDuration(song)) ELSE withAlbum

\* variant that sends the album key whether the song has an album or not
scrobbleParams_alwaysAlbum(song, sessionID) ==
    <<<<"method", "track.scrobble">>,
      <<"timestamp[0]", song.metadata.startTimestamp>>,
      <<"track[0]", orElse(song.processed.track, song.parsed.track)>>,
      <<"artist[0]", orElse(song.processed.artist, song.parsed.artist)>>,
      <<"api_key", ApiKey>>,
      <<"sk", sessionID>>,
      <<"album[0]", getAlbum(song)>>>>

\* the params object scrobble builds
scrobbleParams(song, sessionID) ==
    LET params == <<<<"method", "track.scrobble">>,
                    <<"timestamp[0]", song.metadata.startTimestamp>>,
                    <<"track[0]", orElse(song.processed.track, song.parsed.track)>>,
                    <<"artist[0]", orElse(song.processed.artist, song.parsed.artist)>>,
                    <<"api_key", ApiKey>>,
                    <<"sk", sessionID>>>>
    IN IF Truthy(getAlbum(song))
       THEN assign(params, "album[0]", getAlbum(song)) ELSE params

\* the params object toggleLove builds
toggleLoveParams(song, isLoved, sessionID) ==
    <<<<"method", "track." \o (IF isLoved THEN "love" ELSE "unlove")>>,
      <<"track", orElse(song.processed.track, song.parsed.track)>>,
      <<"artist", orElse(song.processed.artist, song.parsed.artist)>>,
      <<"api_key", ApiKey>>,
      <<"sk", sessionID>>>>

\* the params object of an invocation
operationParams(op, sessionID) ==
    CASE op.name = "sendNowPlaying" -> sendNowPlayingParams(op.song, sessionID)
      [] op.name = "scrobble" -> scrobbleParams(op.song, sessionID)
      [] op.name = "toggleLove" -> toggleLoveParams(op.song, op.isLoved, sessionID)

\* doRequest, up to fetch: the params object as sent, and the URL
doRequestParams(params, signed) ==
    LET withKey == assign(params, "api_key", ApiKey)
    IN IF signed THEN assign(withKey, "api_sig", generateSign(withKey)) ELSE withKey
doRequestUrl(params) == ApiUrl \o "?" \o createQueryString(params)

\* variant of doRequest without the catch handler: the failure goes through
doRequest_raw(resp) ==
    IF resp.kind = "xml" THEN Resolved(resp)
    ELSE Rejected(IF resp.kind = "error" THEN FetchFailed ELSE "Error: Invalid XML",
                  NoTrackResp)

\* doRequest, from fetch on: the promise resolves with the parsed document, and
\* the catch handler turns a failure of fetch, text() or $.parseXML into OtherError
doRequest(resp) ==
    IF resp.kind = "xml" THEN Resolved(resp) ELSE Rejected(OtherError, NoTrackResp)

\* variant that takes every parsed response for a success
processResponse_alwaysOk(doc) == Ok

\* processResponse
processResponse(doc) == IF doc.status # "ok" THEN OtherError ELSE Ok

\* doRequest(...).then(processResponse)
trackSettled(resp) ==
    LET doc == doRequest(resp)
    IN IF doc.state = "resolved" THEN Resolved(processResponse(doc.value))
       ELSE Rejected(doc.error, NoResult)

\* variant that reports every failure of getSession as OtherError
thenPassThrough_otherError(session) == Rejected(OtherError, NoResult)

\* getSession().then(handler) has no rejection handler: the promise of the
\* operation is rejected with the value getSession rejected with
thenPassThrough(session) == Rejected(session.error, NoResult)

\* The caller has the outcome of an operation in the step that settles it; the
\* records of a settled operation are dropped with the next step.
unsettled(f, blank) == [q \in Pipes |-> IF tPc[q] = "done" THEN blank ELSE f[q]]
dropSettled ==
    /\ tPc' = unsettled(tPc, "idle")
    /\ tOp' = unsettled(tOp, NoOperation)
    /\ tSlot' = unsettled(tSlot, 0)
    /\ tSession' = unsettled(tSession, Pending(NoSessionData))
    /\ tTrades' = unsettled(tTrades, 0)
    /\ tParams' = unsettled(tParams, <<>>)
    /\ tUrl' = unsettled(tUrl, <<>>)
    /\ tReqs' = unsettled(tReqs, 0)
    /\ tResp' = unsettled(tResp, NoTrackResp)
    /\ tResult' = unsettled(tResult, Pending(NoResult))

\* an operation is invoked: it calls getSession
invokeOperation(p, c) ==
    /\ tPc[p] \in {"idle", "done"}
    /\ \A q \in 1..(p - 1) : tPc[q] \notin {"idle", "done"}
    /\ getSession(c)
    /\ \E op \in Operations : tOp' = [unsettled(tOp, NoOperation) EXCEPT ![p] = op]
    /\ tPc' = [unsettled(tPc, "idle") EXCEPT ![p] = "session"]
    /\ tSlot' = [unsettled(tSlot, 0) EXCEPT ![p] = c]
    /\ tSession' = [unsettled(tSession, Pending(NoSessionData)) EXCEPT ![p] = Pending(NoSessionData)]
    /\ tTrades' = [unsettled(tTrades, 0) EXCEPT ![p] = 0]
    /\ tParams' = [unsettled(tParams, <<>>) EXCEPT ![p] = <<>>]
    /\ tUrl' = [unsettled(tUrl, <<>>) EXCEPT ![p] = <<>>]
    /\ tReqs' = [unsettled(tReqs, 0) EXCEPT ![p] = 0]
    /\ tResp' = [unsettled(tResp, NoTrackResp) EXCEPT ![p] = NoTrackResp]
    /\ tResult' = [unsettled(tResult, Pending(NoResult)) EXCEPT ![p] = Pending(NoResult)]
    /\ UNCHANGED <<signVars, tabVars>>

\* the handler the operation gave to getSession().then: it runs as soon as the
\* step of getSession in slot c has settled the promise.  A rejection passes
\* through; with a session the track request is built, signed and sent.
afterSession(c) ==
    IF sPc'[c] # "done" \/ ~(\E p \in Pipes : tSlot[p] = c /\ tPc[p] = "session")
    THEN dropSettled
    ELSE LET p == CHOOSE q \in Pipes : tSlot[q] = c /\ tPc[q] = "session"
             session == sResult'[c]
             params == doRequestParams(
                           operationParams(tOp[p], session.value.sessionID), TRUE)
         IN
            /\ tSlot' = [unsettled(tSlot, 0) EXCEPT ![p] = 0]
            /\ tSession' = [unsettled(tSession, Pending(NoSessionData)) EXCEPT ![p] = session]
            /\ tTrades' = [unsettled(tTrades, 0) EXCEPT ![p] = sReq'[c]]
            /\ tOp' = unsettled(tOp, NoOperation)
            /\ tResp' = unsettled(tResp, NoTrackResp)
            /\ IF session.state = "rejected"
               THEN
                    /\ tResult' = [unsettled(tResult, Pending(NoResult)) EXCEPT ![p] = thenPassThrough(session)]
                    /\ tPc' = [unsettled(tPc, "idle") EXCEPT ![p] = "done"]
                    /\ tParams' = unsettled(tParams, <<>>)
                    /\ tUrl' = unsettled(tUrl, <<>>)
                    /\ tReqs' = unsettled(tReqs, 0)
               ELSE
                    /\ tParams' = [unsettled(tParams, <<>>) EXCEPT ![p] = params]
                    /\ tUrl' = [unsettled(tUrl, <<>>) EXCEPT ![p] = doRequestUrl(tParams'[p])]
                    /\ tReqs' = [unsettled(tReqs, 0) EXCEPT ![p] = @ + 1]
                    /\ tPc' = [unsettled(tPc, "idle") EXCEPT ![p] = "request"]
                    /\ tResult' = unsettled(tResult, Pending(NoResult))

\* variant in which a track request that failed is sent again
trackResponse_retries(p) ==
    /\ tPc[p] = "request"
    /\ \E resp \in TrackResponses :
         /\ tResp' = [unsettled(tResp, NoTrackResp) EXCEPT ![p] = resp]
         /\ IF trackSettled(resp) = Resolved(Ok) \/ tReqs[p] > 1
            THEN /\ tResult' = [unsettled(tResult, Pending(NoResult)) EXCEPT
                                    ![p] = trackSettled(resp)]
                 /\ tPc' = [unsettled(tPc, "idle") EXCEPT ![p] = "done"]
                 /\ tReqs' = unsettled(tReqs, 0)
            ELSE /\ tResult' = unsettled(tResult, Pending(NoResult))
                 /\ tPc' = unsettled(tPc, "idle")
                 /\ tReqs' = [unsettled(tReqs, 0) EXCEPT ![p] = @ + 1]
    /\ tOp' = unsettled(tOp, NoOperation)
    /\ tSlot' = unsettled(tSlot, 0)
    /\ tSession' = unsettled(tSession, Pending(NoSessionData))
    /\ tTrades' = unsettled(tTrades, 0)
    /\ tParams' = unsettled(tParams, <<>>)
    /\ tUrl' = unsettled(tUrl, <<>>)
    /\ UNCHANGED <<vars, signVars, tabVars>>

\* variant in which a failed track request throws the session away
trackResponse_dropsSession(p) ==
    /\ tPc[p] = "request"
    /\ \E resp \in TrackResponses :
         /\ tResp' = [unsettled(tResp, NoTrackResp) EXCEPT ![p] = resp]
         /\ tResult' = [unsettled(tResult, Pending(NoResult)) EXCEPT
                            ![p] = trackSettled(resp)]
         /\ stored' = IF trackSettled(resp) = Resolved(Ok) THEN stored
                      ELSE EmptyCredentials
    /\ tPc' = [unsettled(tPc, "idle") EXCEPT ![p] = "done"]
    /\ tOp' = unsettled(tOp, NoOperation)
    /\ tSlot' = unsettled(tSlot, 0)
    /\ tSession' = unsettled(tSession, Pending(NoSessionData))
    /\ tTrades' = unsettled(tTrades, 0)
    /\ tParams' = unsettled(tParams, <<>>)
    /\ tUrl' = unsettled(tUrl, <<>>)
    /\ tReqs' = unsettled(tReqs, 0)
    /\ UNCHANGED <<sessVars, lastFail, lastWriter, submitted, consumed, authVars, signVars, tabVars>>

\* the track request completes and the promise of the operation settles
trackResponse(p) ==
    /\ tPc[p] = "request"
    /\ \E resp \in TrackResponses :
         /\ tResp' = [unsettled(tResp, NoTrackResp) EXCEPT ![p] = resp]
         /\ tResult' = [unsettled(tResult, Pending(NoResult)) EXCEPT
                            ![p] = trackSettled(resp)]
    /\ tPc' = [unsettled(tPc, "idle") EXCEPT ![p] = "done"]
    /\ tOp' = unsettled(tOp, NoOperation)
    /\ tSlot' = unsettled(tSlot, 0)
    /\ tSession' = unsettled(tSession, Pending(NoSessionData))
    /\ tTrades' = unsettled(tTrades, 0)
    /\ tParams' = unsettled(tParams, <<>>)
    /\ tUrl' = unsettled(tUrl, <<>>)
    /\ tReqs' = unsettled(tReqs, 0)
    /\ UNCHANGED <<vars, signVars, tabVars>>

\* the operations, each with the getSession call it makes
TrackNext ==
    \/ \E p \in Pipes, c \in SessCalls : invokeOperation(p, c)
    \/ \E c \in SessCalls : sessionStorageGet(c) /\ dropSettled /\ UNCHANGED <<signVars, tabVars>>
    \/ \E c \in SessCalls : sessionGetCallback(c) /\ afterSession(c) /\ UNCHANGED <<signVars, tabVars>>
    \/ \E c \in SessCalls : sessionTradeDone(c) /\ dropSettled /\ UNCHANGED <<signVars, tabVars>>
    \/ \E c \in SessCalls : sessionSetCallback(c) /\ afterSession(c) /\ UNCHANGED <<signVars, tabVars>>
    \/ \E p \in Pipes : trackResponse(p)

TrackInit ==
    /\ stored \in TrackCredentials
    /\ HandshakeIdle
    /\ TrackIdle
    /\ SignIdle
    /\ TabIdle

TrackSpec == TrackInit /\ [][TrackNext]_allVars

\* ------------------------------------------- properties of the operations

\* an operation whose track request is out or has come back
Requested(p) == tPc[p] \in {"request", "done"} /\ tReqs[p] > 0
\* an operation whose promise has settled
Finished(p) == tPc[p] = "done"

\* C13: an operation is a sequential pipeline: while its getSession call runs
\* no track request is out, a track request is sent only with a resolved
\* session, an invocation sends at most one track request and at most one
\* token trade, and it has sent none again when it has settled.
C13_SequentialPipeline ==
    \A p \in Pipes :
        /\ tPc[p] = "session" =>
               /\ tReqs[p] = 0
               /\ tSlot[p] \in SessCalls
               /\ sReq[tSlot[p]] <= 1
        /\ tReqs[p] > 0 => tSession[p].state = "resolved"
        /\ tReqs[p] <= 1
        /\ tTrades[p] <= 1
        /\ (Finished(p) /\ tSession[p].state = "rejected") => tReqs[p] = 0
\* an operation traded a token, sent its track request, and that failed
C13_Witness ==
    \E p \in Pipes :
        /\ Finished(p)
        /\ tTrades[p] = 1
        /\ tReqs[p] = 1
        /\ tResult[p] = Rejected(OtherError, NoResult)

\* C14: when the getSession call of an operation rejects (with AuthError), the
\* operation is rejected with that same value and sends no track request.
C14_AuthErrorPropagates ==
    \A p \in Pipes :
        tSession[p].state = "rejected" =>
            /\ tSession[p].error = AuthError
            /\ Finished(p)
            /\ tResult[p] = Rejected(tSession[p].error, NoResult)
            /\ tReqs[p] = 0
            /\ tParams[p] = <<>>
            /\ tUrl[p] = <<>>
\* each of the three operations has been rejected so: here one whose token
\* trade failed
C14_Witness ==
    \E p \in Pipes :
        /\ tSession[p] = Rejected(AuthError, NoSessionData)
        /\ tTrades[p] = 1
        /\ tOp[p].name = "toggleLove"
        /\ tResult[p] = Rejected(AuthError, NoResult)

\* C15: for a track request whose HTTP call gave a parsable body, the result
\* is Ok exactly when the status attribute of the envelope is "ok"; any other
\* status, a missing one included, gives OtherError.
C15_StatusDecides ==
    \A p \in Pipes :
        (Finished(p) /\ tResp[p].kind = "xml") =>
            /\ tResult[p].state = "resolved"
            /\ tResult[p].value = Ok <=> tResp[p].status = "ok"
            /\ tResp[p].status # "ok" => tResult[p].value = OtherError
\* a response without status attribute has given OtherError
C15_Witness ==
    \E p \in Pipes :
        /\ Finished(p)
        /\ tResp[p] = [kind |-> "xml", status |-> Undefined]
        /\ tResult[p] = Resolved(OtherError)

\* C16: a failure inside doRequest (fetch fails, or the body is no XML)
\* reaches the caller as OtherError, and a settled operation carries one of
\* Ok, AuthError, OtherError whether it resolved or was rejected.
C16_OnlyServiceCallResults ==
    \A p \in Pipes :
        /\ (Finished(p) /\ tResp[p].kind \in {"error", "malformed"}) =>
               tResult[p] = Rejected(OtherError, NoResult)
        /\ Finished(p) =>
               \/ tResult[p].state = "resolved" /\ tResult[p].value \in {Ok, OtherError}
               \/ tResult[p].state = "rejected" /\ tResult[p].error \in {AuthError, OtherError}
\* an operation had a session, and the body of the response was no XML
C16_Witness ==
    \E p \in Pipes :
        /\ Finished(p)
        /\ tSession[p].state = "resolved"
        /\ tResp[p].kind = "malformed"
        /\ tResult[p] = Rejected(OtherError, NoResult)

\* C19: the track request of scrobble(song), made with the session id K that
\* getSession read from storage or got for the stored token, carries
\* method=track.scrobble, track[0], artist[0] and timestamp[0] of the song and
\* sk=K, and the key album[0] if and only if the song has an album.
C19_ScrobbleParameters ==
    \A p \in Pipes :
        (Requested(p) /\ tOp[p].name = "scrobble") =>
            LET song == tOp[p].song
                params == tParams[p]
            IN /\ \A k \in {"method", "track[0]", "artist[0]", "timestamp[0]", "sk"} :
                      hasOwnProperty(params, k)
               /\ valueOf(params, "method") = "track.scrobble"
               /\ valueOf(params, "track[0]") = getTrack(song)
               /\ valueOf(params, "artist[0]") = getArtist(song)
               /\ valueOf(params, "timestamp[0]") = song.metadata.startTimestamp
               /\ valueOf(params, "sk") = tSession[p].value.sessionID
               /\ tSession[p].value.sessionID \in {"sess0"} \cup {SessionNames[c].key : c \in SessCalls}
               /\ hasOwnProperty(params, "album[0]") <=> Truthy(song.album)
               /\ Truthy(song.album) => valueOf(params, "album[0]") = song.album
\* the scenario of the specification: session sess0 stored, a song without
\* album, and the request is out
C19_Witness ==
    \E p \in Pipes :
        /\ tPc[p] = "request"
        /\ tOp[p] = [name |-> "scrobble", song |-> PlainSong, isLoved |-> FALSE]
        /\ stored.sessionID = "sess0"
        /\ tParams[p] = <<<<"method", "track.scrobble">>, <<"timestamp[0]", "1000">>,
                          <<"track[0]", "T">>, <<"artist[0]", "A">>,
                          <<"api_key", ApiKey>>, <<"sk", "sess0">>,
                          <<"api_sig",
                            MD5("api_keyapikeyartist[0]Amethodtrack.scrobblesksess0"
                                \o "timestamp[0]1000track[0]Tapisecret")>>>>

\* C20: the stored credentials change only in the step of a getSession call
\* that writes the outcome of its token trade; the step in which a track
\* request comes back, with whatever result, leaves them as they are.
C20_TrackRequestKeepsCredentials ==
    [][/\ \A p \in Pipes : (tPc[p] = "request" /\ tPc'[p] # "request") => stored' = stored
       /\ stored' # stored => \E c \in SessCalls : sPc[c] = "trade" /\ sPc'[c] = "set"]_allVars
\* a track request has failed and the session it used is still stored
C20_Witness ==
    \E p \in Pipes :
        /\ Finished(p)
        /\ tReqs[p] = 1
        /\ tResult[p] # Resolved(Ok)
        /\ stored.sessionID = tSession[p].value.sessionID
        /\ stored.token = Null

\* --------------------------------------------------- properties of signing

\* the keys of an object in sorted order, by selection from the sorted list
KeysInOrder(params) == SelectSeq(SortedKeys, LAMBDA k : hasOwnProperty(params, k))

\* C17: generateSign does not depend on the insertion order: two objects with
\* the same key/value mapping have the same signed payload, which is key+value
\* in sorted key order followed by the secret, and so the same signature.
C17_OrderIndependent ==
    gPc = "reordered" =>
        /\ gSign[1] = gSign[2]
        /\ signedPayload(gParams) = signedPayload(gOther)
        /\ signedPayload(gOther) = signedString(KeysInOrder(gParams), gParams) \o ApiSecret
\* three properties inserted in the reverse of the sorted order
C17_Witness ==
    /\ gPc = "reordered"
    /\ Len(gParams) = 3
    /\ ownKeys(gParams) = <<"sk", "method", "artist">>
    /\ ownKeys(gOther) = <<"artist", "method", "sk">>
    /\ gSign[2] = MD5("artist" \o valueOf(gParams, "artist")
                      \o "method" \o valueOf(gParams, "method")
                      \o "sk" \o valueOf(gParams, "sk") \o ApiSecret)

\* C18: format and callback are no part of the signed payload: setting,
\* changing or deleting one of them leaves the signature as it was, and
\* createQueryString has a part for every property, these two included.
C18_ReservedKeysUnsigned ==
    gPc = "reserved" =>
        /\ gSign[1] = gSign[2]
        /\ Len(gQuery.parts) = Len(gOther)
        /\ gQuery.string = join(gQuery.parts, "&")
        /\ \A k \in SignKeys :
               hasOwnProperty(gOther, k) =>
                   \E i \in DOMAIN gQuery.parts :
                       gQuery.parts[i] = k \o "=" \o encodeURIComponent(valueOf(gOther, k))
\* format=json was added to an object that has signed properties
C18_Witness ==
    /\ gPc = "reserved"
    /\ ~hasOwnProperty(gParams, "format")
    /\ hasOwnProperty(gParams, "method")
    /\ hasOwnProperty(gOther, "format")
    /\ valueOf(gOther, "format") = "json"
    /\ \E i \in DOMAIN gQuery.parts : gQuery.parts[i] = "format=json"

\* ------------------------------------------------------- tab controllers

\* The background script: tabControllers and the handlers of the tabs events.
\* A handler runs to its end without interleaving except at an await; the
\* only await of these handlers is the one of onTabUpdated on
\* Inject.onTabsUpdated(tab).  The browser never reuses the ID of a tab and
\* sends no event for a tab after its onRemoved event.

isActive(mode) == mode = "active"
isInactive(mode) == mode = "inactive"

\* tabControllers[tabId], undefined when tabId is null
controllerOf(controllers, tabId) ==
    IF tabId \in Tabs THEN controllers[tabId] ELSE NoController

\* unloadController: finish() the controller of the tab, then delete the entry
unloadController(tabId) ==
    LET controller == tabControllers[tabId]
    IN IF controller = NoController
       THEN [tabControllers |-> tabControllers, ctrlState |-> ctrlState, taken |-> taken]
       ELSE [tabControllers |-> [tabControllers EXCEPT ![tabId] = NoController],
             ctrlState |-> [ctrlState EXCEPT ![controller] = "finished"],
             taken |-> taken \cup {controller}]

\* findActiveTabId on the given entries; a for-in loop visits integer keys in
\* ascending order
findActiveTabId(controllers) ==
    LET ctrl == controllerOf(controllers, currentTabId)
        actives == {t \in Tabs : /\ controllers[t] # NoController
                                  /\ isActive(ctrlMode[controllers[t]])}
    IN IF ctrl # NoController /\ isActive(ctrlMode[ctrl]) THEN currentTabId
       ELSE IF actives # {} THEN CHOOSE t \in actives : \A u \in actives : t <= u
       ELSE IF ctrl # NoController THEN currentTabId
       ELSE -1

\* shouldUpdateBrowserAction(tabId), with currentTabId as given
shouldUpdateBrowserAction(tabId, current) ==
    LET activeCtrl == controllerOf(tabControllers, activeTabId)
        ctrl == controllerOf(tabControllers, tabId)
    IN IF activeCtrl # NoController /\ isActive(ctrlMode[activeCtrl]) THEN FALSE
       ELSE IF ctrl # NoController /\ tabId # current /\ isInactive(ctrlMode[ctrl])
            THEN FALSE
       ELSE TRUE

\* the controller a `new Controller(...)` creates: the lowest unused one
newController == CHOOSE k \in Controllers :
                     ctrlState[k] = "none" /\ \A j \in 1..(k - 1) : ctrlState[j] # "none"

\* onTabUpdated up to its await: returns unless the navigation is complete,
\* else starts the injection check
onTabUpdated(tabId) ==
    /\ tabId \notin removed
    /\ \E status \in TabStatuses :
         IF status # "complete"
         THEN UNCHANGED injecting
         ELSE /\ injecting[tabId] < MaxInjecting
              /\ injecting' = [injecting EXCEPT ![tabId] = @ + 1]
    /\ UNCHANGED <<tabControllers, ctrlState, ctrlTab, ctrlEnabled, ctrlMode,
                   removed, taken, activeTabId, currentTabId>>

\* onTabUpdated after its await: Inject.onTabsUpdated has settled
onTabUpdatedResume(tabId) ==
    /\ injecting[tabId] > 0
    /\ injecting' = [injecting EXCEPT ![tabId] = @ - 1]
    /\ \E result \in InjectResults :
         LET u == unloadController(tabId) IN
         CASE result = "threw" ->
                UNCHANGED <<tabControllers, ctrlState, ctrlTab, ctrlEnabled, ctrlMode, taken>>
           [] result = "NO_MATCH" ->
                /\ tabControllers' = u.tabControllers
                /\ ctrlState' = u.ctrlState
                /\ taken' = u.taken
                /\ UNCHANGED <<ctrlTab, ctrlEnabled, ctrlMode>>
           [] OTHER ->
                /\ \E k \in Controllers : ctrlState[k] = "none"
                /\ \E mode \in Modes :
                     LET ctrl == newController
                         old == u.tabControllers[tabId]
                     IN /\ ctrlState' = [u.ctrlState EXCEPT ![ctrl] = "running"]
                        /\ ctrlTab' = [ctrlTab EXCEPT ![ctrl] = tabId]
                        /\ ctrlEnabled' = [ctrlEnabled EXCEPT ![ctrl] =
                                              result = "MATCHED_AND_INJECTED"]
                        /\ ctrlMode' = [ctrlMode EXCEPT ![ctrl] = mode]
                        /\ tabControllers' = [u.tabControllers EXCEPT ![tabId] = ctrl]
                        /\ taken' = IF old = NoController THEN u.taken
                                    ELSE u.taken \cup {old}
    /\ UNCHANGED <<removed, activeTabId, currentTabId>>

\* onTabChanged: the tab is the current one now
onTabChanged(tabId) ==
    /\ tabId \notin removed
    /\ currentTabId' = tabId
    /\ activeTabId' = IF shouldUpdateBrowserAction(tabId, tabId) THEN tabId
                      ELSE activeTabId
    /\ UNCHANGED <<tabControllers, ctrlState, ctrlTab, ctrlEnabled, ctrlMode,
                   injecting, removed, taken>>

\* onTabRemoved: the controller of the tab is unloaded, activeTabId moves on
onTabRemoved(removedTabId) ==
    /\ removedTabId \notin removed
    /\ LET u == unloadController(removedTabId)
           lastActiveTabId == findActiveTabId(u.tabControllers)
       IN /\ tabControllers' = u.tabControllers
          /\ ctrlState' = u.ctrlState
          /\ taken' = u.taken
          /\ activeTabId' = IF lastActiveTabId # -1 THEN lastActiveTabId
                            ELSE activeTabId
    /\ removed' = removed \cup {removedTabId}
    /\ UNCHANGED <<ctrlTab, ctrlEnabled, ctrlMode, injecting, currentTabId>>

\* ctrl.onModeChanged: a running controller has changed its mode
onModeChanged(ctrl) ==
    /\ ctrlState[ctrl] = "running"
    /\ \E mode \in Modes \ {ctrlMode[ctrl]} :
         /\ ctrlMode' = [ctrlMode EXCEPT ![ctrl] = mode]
         /\ activeTabId' = IF isActive(mode) THEN ctrlTab[ctrl] ELSE activeTabId
    /\ UNCHANGED <<tabControllers, ctrlState, ctrlTab, ctrlEnabled, injecting,
                   removed, taken, currentTabId>>

TabNext ==
    \/ \E t \in Tabs : onTabUpdated(t) /\ UNCHANGED <<vars, trackVars, signVars>>
    \/ \E t \in Tabs : onTabUpdatedResume(t) /\ UNCHANGED <<vars, trackVars, signVars>>
    \/ \E t \in Tabs : onTabChanged(t) /\ UNCHANGED <<vars, trackVars, signVars>>
    \/ \E t \in Tabs : onTabRemoved(t) /\ UNCHANGED <<vars, trackVars, signVars>>
    \/ \E k \in Controllers : onModeChanged(k) /\ UNCHANGED <<vars, trackVars, signVars>>

\* after start(): currentTabId is the ID of the current tab, listeners are set
TabInit ==
    /\ stored = EmptyCredentials
    /\ HandshakeIdle
    /\ TrackIdle
    /\ SignIdle
    /\ tabControllers = [t \in Tabs |-> NoController]
    /\ ctrlState = [k \in Controllers |-> "none"]
    /\ ctrlTab = [k \in Controllers |-> NoTab]
    /\ ctrlEnabled = [k \in Controllers |-> FALSE]
    /\ ctrlMode = [k \in Controllers |-> "none"]
    /\ injecting = [t \in Tabs |-> 0]
    /\ removed = {}
    /\ taken = {}
    /\ activeTabId = NoTab
    /\ currentTabId \in Tabs

TabSpec == TabInit /\ [][TabNext]_allVars

\* ------------------------------------------- properties of tab controllers

\* C24: at most one controller that has not been finished belongs to a tab,
\* every controller taken out of tabControllers has had finish() called, and
\* no controller is registered for a tab for which onTabRemoved has run, also
\* when an onTabUpdated of the tab resumes from its injection check after that.
C24_TabControllers ==
    /\ \A t \in Tabs :
           Cardinality({k \in Controllers : ctrlState[k] = "running" /\ ctrlTab[k] = t}) <= 1
    /\ \A k \in taken : ctrlState[k] = "finished"
    /\ \A t \in removed : tabControllers[t] = NoController
====
